---------------------------- MODULE Spec2Model ----------------------------
(***************************************************************************)
(* BIN Holter -> WFDB converter (src/converters/bin_converter.py):         *)
(* BinConverter.analyze_file_structure, extract_annotations and            *)
(* convert_to_wfdb, as called by analyze_ecg (src/app.py).                 *)
(***************************************************************************)
EXTENDS Integers, Sequences, FiniteSets, TLC

VARIABLES
    file,         \* the input file: its length and its bytes
    base,         \* base name of the input file
    pc,           \* position of the conversion
    header,       \* self.header
    footer,       \* self.footer
    loaded,       \* FALSE while self.ecg_data and self.sample_rate are None
    ecg_data,     \* self.ecg_data: float32 values (when loaded)
    sample_rate,  \* self.sample_rate (when loaded)
    annotations,  \* self.annotations
    ecg3,         \* local of convert_to_wfdb: the (n_frames, 3) int16 array
    files,        \* the files of the output directory: a subset of {"dat", "hea", "atr"}
    dat,          \* bytes of <base>.dat
    hea,          \* lines of <base>.hea
    atr,          \* what wrann was given for <base>.atr
    exc,          \* the exception that reached the caller, or None
    cut,          \* the file that a failed write left incomplete, or None
    arg,          \* input of the function applied (function specifications)
    res,          \* its result
    conv,         \* several converters: the fields of each BinConverter instance
    disk,         \* their output directories: the files of each
    app           \* the upload request (analyze_ecg) and the analysis run (process_analysis)

vars == <<file, base, pc, header, footer, loaded, ecg_data, sample_rate, annotations,
          ecg3, files, dat, hea, atr, exc, cut, arg, res, conv, disk, app>>

(***************************************************************************)
(* Program constants.                                                      *)
(***************************************************************************)
HEADER_SIZE == 512
FOOTER_SIZE == 1024
DEFAULT_FS == 256
COUNTS_PER_MV == 200
NCHANNELS == 3

None == "None"

Int16 == -32768..32767

(***************************************************************************)
(* Bytes and bits.                                                         *)
(***************************************************************************)
U16BE(lo, hi) == hi + 256 * lo

\* int.from_bytes(b, 'little') of two bytes: an unsigned 16-bit value.
U16LE(lo, hi) == lo + 256 * hi

\* One element of a uint8 buffer viewed as int16 (little-endian host).
I16LE(lo, hi) == IF U16LE(lo, hi) >= 32768 THEN U16LE(lo, hi) - 65536
                 ELSE U16LE(lo, hi)

RECURSIVE BitAnd(_, _)
BitAnd(a, b) == IF a = 0 \/ b = 0 THEN 0
                ELSE ((a % 2) * (b % 2)) + (2 * BitAnd(a \div 2, b \div 2))

RECURSIVE BitOr(_, _)
BitOr(a, b) == IF a = 0 THEN b
               ELSE IF b = 0 THEN a
               ELSE (IF a % 2 = 1 \/ b % 2 = 1 THEN 1 ELSE 0)
                    + (2 * BitOr(a \div 2, b \div 2))

ShiftLeft(a, n) == a * 2^n

(***************************************************************************)
(* IEEE-754 binary32 values, as sign * m * 2^e with 2^23 <= m < 2^24 (or   *)
(* m = 0).  Products of two 24-bit significands are formed in 12-bit limbs *)
(* and rounded to nearest, ties to even.                                   *)
(***************************************************************************)
F32Zero == [s |-> 1, m |-> 0, e |-> 0]

RECURSIVE F32Norm(_, _, _)
F32Norm(s, m, e) == IF m = 0 THEN F32Zero
                    ELSE IF m < 8388608 THEN F32Norm(s, 2 * m, e - 1)
                    ELSE [s |-> s, m |-> m, e |-> e]

\* astype(np.float32) of an integer of magnitude below 2^24: exact.
F32FromInt(n) == IF n < 0 THEN F32Norm(-1, -n, 0) ELSE F32Norm(1, n, 0)

\* np.float32(0.001) = 0x3A83126F = 8589935 * 2^-33.
F32_0_001 == [s |-> 1, m |-> 8589935, e |-> -33]

\* m rounded to nearest-even after dropping the low part `low` of `unit`.
RoundEven(m, low, unit) ==
    IF 2 * low > unit \/ (2 * low = unit /\ m % 2 = 1) THEN m + 1 ELSE m

F32Mul(a, b) ==
    IF a.m = 0 \/ b.m = 0 THEN F32Zero
    ELSE LET ah == a.m \div 4096
             al == a.m % 4096
             bh == b.m \div 4096
             bl == b.m % 4096
             ll == al * bl
             mid == (ah * bl) + (al * bh) + (ll \div 4096)
             top == (ah * bh) + (mid \div 4096)
             \* product = top * 2^24 + low, low < 2^24
             low == ((mid % 4096) * 4096) + (ll % 4096)
             m48 == RoundEven(top, low, 16777216)
             m47 == RoundEven((2 * top) + (low \div 8388608), low % 8388608, 8388608)
             s == a.s * b.s
         IN  IF top >= 8388608
             THEN F32Norm(s, IF m48 = 16777216 THEN 8388608 ELSE m48,
                             IF m48 = 16777216 THEN a.e + b.e + 25 ELSE a.e + b.e + 24)
             ELSE F32Norm(s, IF m47 = 16777216 THEN 8388608 ELSE m47,
                             IF m47 = 16777216 THEN a.e + b.e + 24 ELSE a.e + b.e + 23)

\* astype(np.int16) of a float32 within the int16 range: truncation toward zero.
F32ToInt16(x) ==
    IF x.m = 0 \/ x.e <= -24 THEN 0
    ELSE IF x.e >= 0 THEN x.s * x.m * 2^(x.e)
    ELSE x.s * (x.m \div 2^(-x.e))

ToPhysicalUnscaled(raw) == F32FromInt(raw)

\* raw16.astype(np.float32) * 0.001
ToPhysical(raw) == F32Mul(F32FromInt(raw), F32_0_001)

\* (self.ecg_data * self.COUNTS_PER_MV).astype(np.int16), one element
Requantize(v) == F32ToInt16(F32Mul(v, F32FromInt(COUNTS_PER_MV)))


(***************************************************************************)
(* Buffers.  A buffer is its length and the bytes of its leading part; the *)
(* bytes after that part are zero.                                         *)
(***************************************************************************)
ByteAt(buf, i) == IF i < Len(buf.bytes) THEN buf.bytes[i + 1] ELSE 0

\* the sequence s itself, evaluated once by TLC into its tuple of elements
AsTuple(s) == SubSeq(s, 1, Len(s))

\* the rows of a 2-D array in C order
RECURSIVE FlattenRows(_)
FlattenRows(rows) == IF rows = <<>> THEN <<>> ELSE rows[1] \o FlattenRows(Tail(rows))

(***************************************************************************)
(* analyze_file_structure                                                  *)
(***************************************************************************)
\* mm[HEADER_SIZE:-FOOTER_SIZE].view(np.int16): defined when the region's
\* byte count is a multiple of 2; numpy raises ValueError otherwise.
ViewInt16(region) ==
    [i \in 1..(Len(region) \div 2) |-> I16LE(region[(2 * i) - 1], region[2 * i])]

ResolveRateExclusive(hdr) ==
    LET fs == U16LE(ByteAt(hdr, 2), ByteAt(hdr, 3))
    IN  IF 100 < fs /\ fs < 1000 THEN fs ELSE DEFAULT_FS

ResolveRateOffset0(hdr) ==
    LET fs == U16LE(ByteAt(hdr, 0), ByteAt(hdr, 1))
    IN  IF 100 <= fs /\ fs <= 1000 THEN fs ELSE DEFAULT_FS

ResolveRate(hdr) ==
    LET fs == U16LE(ByteAt(hdr, 2), ByteAt(hdr, 3))
    IN  IF 100 <= fs /\ fs <= 1000 THEN fs ELSE DEFAULT_FS

TooSmallHeaderOnly(size) == size < HEADER_SIZE

TooSmall(size) == size < HEADER_SIZE + FOOTER_SIZE

ViewFails(region) == Len(region) % 2 # 0

Analyze ==
    /\ pc = "new"
    /\ IF TooSmall(file.len)
       THEN /\ pc' = "failed"
            /\ exc' = "ValueError"
            /\ UNCHANGED <<header, footer, loaded, ecg_data, sample_rate>>
       ELSE /\ header' = [len |-> HEADER_SIZE, bytes |-> file.head]
            /\ footer' = [len |-> FOOTER_SIZE, bytes |-> file.foot]
            /\ IF ViewFails(file.body)
               THEN /\ pc' = "failed"
                    /\ exc' = "ValueError"
                    /\ UNCHANGED <<loaded, ecg_data, sample_rate>>
               ELSE /\ ecg_data' = [i \in 1..(Len(file.body) \div 2) |->
                                       ToPhysical(ViewInt16(file.body)[i])]
                    /\ sample_rate' = ResolveRate(header')
                    /\ loaded' = TRUE
                    /\ pc' = "analyzed"
                    /\ exc' = None
    /\ UNCHANGED <<cut, file, base, annotations, ecg3, files, dat, hea, atr, arg, res, conv, disk, app>>

(***************************************************************************)
(* extract_annotations                                                     *)
(***************************************************************************)
\* chr(code).isprintable() and not chr(code).isspace(), for code in 0..255
PrintableOrSpace(code) ==
    \/ 32 <= code /\ code <= 126
    \/ 160 <= code /\ code <= 255

PrintableNonSpace(code) ==
    \/ 33 <= code /\ code <= 126
    \/ 161 <= code /\ code <= 172
    \/ 174 <= code /\ code <= 255

SymbolN == 78

SymbolOf(code) == IF PrintableNonSpace(code) THEN code ELSE SymbolN

\* the loop of lines 55-64 over the n slots of buf
SlotPosSigned(buf, i) == I16LE(ByteAt(buf, i * 4), ByteAt(buf, (i * 4) + 1))

SlotPos(buf, i) == U16LE(ByteAt(buf, i * 4), ByteAt(buf, (i * 4) + 1))

SlotCode(buf, i) == ByteAt(buf, (i * 4) + 2)

NonEmptySlotByCode(rec) == rec[2] # 0

NonEmptySlot(rec) == rec[1] # 0

ScanSlots(buf, n) ==
    LET slots == [i \in 1..n |-> <<SlotPos(buf, i - 1), SlotCode(buf, i - 1)>>]
        kept == SelectSeq(slots, NonEmptySlot)
    IN  AsTuple([j \in 1..Len(kept) |-> <<kept[j][1], SymbolOf(kept[j][2])>>])

SortByPosNever(ann) == ann

\* ann.sort(key=lambda x: x[0]): ascending positions, records of equal position
\* in their order of arrival.  The record at place k is the one that has k - 1
\* records before it in that order.
SortByPos(ann) ==
    LET n == Len(ann)
        place == AsTuple([i \in 1..n |->
                     1 + Cardinality({j \in 1..n :
                             \/ ann[j][1] < ann[i][1]
                             \/ (ann[j][1] = ann[i][1] /\ j < i)})])
    IN  AsTuple([k \in 1..n |-> ann[CHOOSE i \in 1..n : place[i] = k]])

\* lines 68-73: a record is kept when its position exceeds the last kept one,
\* which is the largest position before it
StrictIncreasing(ann, last) ==
    LET Kept(i) == ann[i][1] > last /\ \A j \in 1..(i - 1) : ann[j][1] < ann[i][1]
        idx == SelectSeq([i \in 1..Len(ann) |-> i], Kept)
    IN  AsTuple([k \in 1..Len(idx) |-> ann[idx[k]]])

ExtractAnnotations(buf) ==
    StrictIncreasing(SortByPos(ScanSlots(buf, buf.len \div 4)), -1)

(***************************************************************************)
(* convert_to_wfdb                                                         *)
(***************************************************************************)
RawInt(data) == [i \in 1..Len(data) |-> Requantize(data[i])]

PadEvenNever(q) == q

PadEvenZero(q) == IF Len(q) % 2 # 0 THEN Append(q, 0) ELSE q

PadEven(q) == IF Len(q) % 2 # 0 THEN Append(q, q[Len(q)]) ELSE q

Reshape3(q) ==
    [i \in 1..(Len(q) \div NCHANNELS) |->
        [c \in 1..NCHANNELS |-> q[(NCHANNELS * (i - 1)) + c]]]

EvenFramesNever(frames) == frames

EvenFrames(frames) ==
    IF Len(frames) % 2 # 0 THEN SubSeq(frames, 1, Len(frames) - 1) ELSE frames

Frames(data) == EvenFrames(Reshape3(PadEven(RawInt(data))))

\* x.astype(np.uint32) & 0x0FFF for an int16 x: the mask clears the 20 high
\* bits of the sign-extended word, so its low 16 bits are all that is read.
Mask12Clamped(x) ==
    BitAnd((IF x > 2047 THEN 2047 ELSE IF x < -2048 THEN -2048 ELSE x) % 65536, 4095)

Mask12(x) == BitAnd(x % 65536, 4095)

Pack12Shift8(even, odd) == BitOr(ShiftLeft(Mask12(odd), 8), Mask12(even))

Pack12Swapped(even, odd) == BitOr(ShiftLeft(Mask12(even), 12), Mask12(odd))

\* word = (odd << 12) | even
Pack12(even, odd) == BitOr(ShiftLeft(Mask12(odd), 12), Mask12(even))

\* word.astype('<u4').view(np.uint8).reshape(-1, 4)
LE4(word) == <<word % 256, (word \div 256) % 256, (word \div 65536) % 256,
               (word \div 16777216) % 256>>

Low3KeepsAll(b4) == b4

\* b4[:, :3]
Low3(b4) == SubSeq(b4, 1, 3)

PackedBytesChannelMajor(frames) ==
    LET n_pairs == Len(frames) \div 2
        rows == [j \in 1..(n_pairs * NCHANNELS) |->
                    LET k == (j - 1) % n_pairs
                        c == ((j - 1) \div n_pairs) + 1
                    IN  SubSeq(LE4(Pack12(frames[(2 * k) + 1][c], frames[(2 * k) + 2][c])), 1, 3)]
    IN  FlattenRows(rows)

\* b3, flattened as tofile writes it: one row of 3 bytes per (pair, channel)
PackedBytes(frames) ==
    LET n_pairs == Len(frames) \div 2
        rows == [j \in 1..(n_pairs * NCHANNELS) |->
                    LET k == (j - 1) \div NCHANNELS
                        c == ((j - 1) % NCHANNELS) + 1
                    IN  Low3(LE4(Pack12(frames[(2 * k) + 1][c], frames[(2 * k) + 2][c])))]
    IN  FlattenRows(rows)

Digit(d) == <<"0", "1", "2", "3", "4", "5", "6", "7", "8", "9">>[d + 1]

\* str() of a non-negative integer
RECURSIVE Str(_)
Str(n) == IF n < 10 THEN Digit(n) ELSE Str(n \div 10) \o Digit(n % 10)

RecordLineDefaultRate(name, n_frames, fs) ==
    name \o " " \o Str(NCHANNELS) \o " " \o Str(n_frames) \o " " \o Str(DEFAULT_FS)

RecordLine(name, n_frames, fs) ==
    name \o " " \o Str(NCHANNELS) \o " " \o Str(n_frames) \o " " \o Str(fs)

ChannelLineIndex(i) ==
    "ECG 212 1 0 " \o Str(i) \o " " \o Str(COUNTS_PER_MV) \o " 0 mV"

ChannelLine(i) ==
    "ECG 212 1 0 " \o Str(i * 3) \o " " \o Str(COUNTS_PER_MV) \o " 0 mV"

HeaLines(name, n_frames, fs) ==
    <<RecordLine(name, n_frames, fs)>> \o [i \in 1..NCHANNELS |-> ChannelLine(i - 1)]

\* lines 78-106: the three channels are prepared, packed and written
WriteDat ==
    /\ pc = "analyzed"
    /\ ecg3' = Frames(ecg_data)
    /\ dat' = PackedBytes(ecg3')
    /\ files' = files \cup {"dat"}
    /\ pc' = "dat"
    /\ UNCHANGED <<cut, file, base, header, footer, loaded, ecg_data, sample_rate,
                   annotations, hea, atr, exc, arg, res, conv, disk, app>>

\* lines 108-116
WriteHea ==
    /\ pc = "dat"
    /\ hea' = HeaLines(base, Len(ecg3), sample_rate)
    /\ files' = files \cup {"hea"}
    /\ pc' = "hea"
    /\ UNCHANGED <<cut, file, base, header, footer, loaded, ecg_data, sample_rate,
                   annotations, ecg3, dat, atr, exc, arg, res, conv, disk, app>>

WriteAtrAlways ==
    /\ pc = "hea"
    /\ annotations' = ExtractAnnotations(footer)
    /\ atr' = [sample |-> [i \in 1..Len(annotations') |-> annotations'[i][1]],
               symbol |-> [i \in 1..Len(annotations') |-> annotations'[i][2]],
               fs |-> sample_rate]
    /\ files' = files \cup {"atr"}
    /\ pc' = "done"
    /\ UNCHANGED <<cut, file, base, header, footer, loaded, ecg_data, sample_rate,
                   ecg3, dat, hea, exc, arg, res, conv, disk, app>>

\* lines 118-133
WriteAtr ==
    /\ pc = "hea"
    /\ annotations' = ExtractAnnotations(footer)
    /\ atr' = IF annotations' # <<>>
              THEN [sample |-> [i \in 1..Len(annotations') |-> annotations'[i][1]],
                    symbol |-> [i \in 1..Len(annotations') |-> annotations'[i][2]],
                    fs |-> sample_rate]
              ELSE atr
    /\ files' = IF annotations' # <<>> THEN files \cup {"atr"} ELSE files
    /\ pc' = "done"
    /\ UNCHANGED <<cut, file, base, header, footer, loaded, ecg_data, sample_rate,
                   ecg3, dat, hea, exc, arg, res, conv, disk, app>>

\* An I/O step raises OSError, which reaches the caller.  os.makedirs or an
\* open raises: nothing more is on the disk.  tofile (line 106) or the writes
\* of the .hea file (lines 110-116) raise: the file exists and holds the
\* leading part that was written; of the .hea file the model keeps the lines
\* that were written whole.
WriteFails ==
    /\ pc \in {"analyzed", "dat"}
    /\ pc' = "failed"
    /\ exc' = "OSError"
    /\ \/ UNCHANGED <<ecg3, files, dat, hea, cut>>
       \/ /\ pc = "analyzed"
          /\ ecg3' = Frames(ecg_data)
          /\ \E k \in 0..(Len(PackedBytes(ecg3')) - 1) :
                 dat' = SubSeq(PackedBytes(ecg3'), 1, k)
          /\ files' = files \cup {"dat"}
          /\ cut' = "dat"
          /\ UNCHANGED hea
       \/ /\ pc = "dat"
          /\ \E k \in 0..(1 + NCHANNELS - 1) :
                 hea' = SubSeq(HeaLines(base, Len(ecg3), sample_rate), 1, k)
          /\ files' = files \cup {"hea"}
          /\ cut' = "hea"
          /\ UNCHANGED <<ecg3, dat>>
    /\ UNCHANGED <<file, base, header, footer, loaded, ecg_data, sample_rate,
                   annotations, atr, arg, res, conv, disk, app>>

WrannFailsRollback ==
    /\ pc = "hea"
    /\ ExtractAnnotations(footer) # <<>>
    /\ annotations' = ExtractAnnotations(footer)
    /\ files' = {}
    /\ pc' = "failed"
    /\ exc' = "WrannError"
    /\ UNCHANGED <<cut, file, base, header, footer, loaded, ecg_data, sample_rate,
                   ecg3, dat, hea, atr, arg, res, conv, disk, app>>

\* lines 119-130 when wfdb.wrann raises: it is called only for a non-empty
\* stream, after extract_annotations has stored the stream; it raises before
\* it opens the .atr file, or while it writes it.
WrannFails ==
    /\ pc = "hea"
    /\ ExtractAnnotations(footer) # <<>>
    /\ annotations' = ExtractAnnotations(footer)
    /\ pc' = "failed"
    /\ exc' = "WrannError"
    /\ \/ UNCHANGED <<files, cut>>
       \/ files' = files \cup {"atr"} /\ cut' = "atr"
    /\ UNCHANGED <<file, base, header, footer, loaded, ecg_data, sample_rate,
                   ecg3, dat, hea, atr, arg, res, conv, disk, app>>

(***************************************************************************)
(* Input files.                                                            *)
(***************************************************************************)
MaxBody == 37        \* bytes between header and footer
SmallSizes == {1000, 1535}

Pattern1(i) == IF i % 2 = 0 THEN 100 * ((i \div 2) + 1) ELSE -100 * ((i \div 2) + 1)

Table2 == <<32767, -32768, 10240, -10245, 3, -3, 5, -5, 4, 10235, -10240, 7,
            20480, -1, 0, 1, 2047, -2048, 9999>>

Pattern2(i) == Table2[(i % Len(Table2)) + 1]

RawCode(p, i) == IF p = 1 THEN Pattern1(i) ELSE Pattern2(i)

\* the j-th byte (from 0) of the little-endian int16 codes of pattern p
BodyByte(p, j) == IF j % 2 = 0 THEN RawCode(p, j \div 2) % 256
                  ELSE (RawCode(p, j \div 2) % 65536) \div 256

Body(p, n) == [j \in 1..n |-> BodyByte(p, j - 1)]

HeadBytes ==
    {<<b[1], b[2], r[1], r[2]>> :
        b \in {<<0, 0>>, <<66, 1>>},
        r \in {<<250, 0>>, <<244, 1>>, <<100, 0>>, <<99, 0>>, <<232, 3>>,
               <<233, 3>>, <<136, 19>>, <<0, 0>>, <<255, 255>>}}

FootBytes ==
    { <<>>,
      <<50, 0, 65, 0,  30, 0, 86, 0,  30, 0, 70, 7,  80, 0, 10, 0,  10, 0, 43, 0>>,
      <<0, 0, 65, 0,  1, 0, 32, 0,  255, 255, 173, 9,  0, 1, 126, 0>>,
      <<7, 0, 78, 0,  0, 0, 0, 0,  7, 0, 65, 0,  3, 0, 200, 0>> }

Files ==
    {[len |-> n, head |-> <<>>, body |-> <<>>, foot |-> <<>>] : n \in SmallSizes}
    \cup
    {[len |-> HEADER_SIZE + n + FOOTER_SIZE, head |-> h, body |-> Body(p, n), foot |-> f] :
        n \in 0..MaxBody, p \in {1, 2}, h \in HeadBytes, f \in FootBytes}

NoAnnotationFile == [sample |-> <<>>, symbol |-> <<>>, fs |-> 0]

\* BinConverter.__init__, and an output directory without files
Fresh ==
    /\ base = "rec"
    /\ header = [len |-> 0, bytes |-> <<>>]
    /\ footer = [len |-> 0, bytes |-> <<>>]
    /\ loaded = FALSE
    /\ ecg_data = <<>>
    /\ sample_rate = 0
    /\ annotations = <<>>
    /\ ecg3 = <<>>
    /\ files = {}
    /\ dat = <<>>
    /\ hea = <<>>
    /\ atr = NoAnnotationFile
    /\ exc = None
    /\ cut = None

\* no further converter
\* no request and no analysis run
NoApp == [req |-> "none", run |-> "none"]

Single == conv = <<>> /\ disk = <<>> /\ app = NoApp

Init ==
    /\ file \in Files
    /\ pc = "new"
    /\ Fresh
    /\ Single
    /\ arg = None
    /\ res = None

Next == Analyze \/ WriteDat \/ WriteHea \/ WriteAtr \/ WriteFails \/ WrannFails

Spec == Init /\ [][Next]_vars


(***************************************************************************)
(* The packing and the re-quantization applied to single inputs.           *)
(***************************************************************************)
Edge12 == {-2048, -1, 2047}

PackInputs ==
    (Int16 \X Edge12) \cup (Edge12 \X Int16) \cup {<<v, -1 - v>> : v \in Int16}

Idle ==
    /\ file = [len |-> 0, head |-> <<>>, body |-> <<>>, foot |-> <<>>]
    /\ Fresh
    /\ Single

InitPack == Idle /\ pc = "arg" /\ arg \in PackInputs /\ res = None

\* one element of `word` (line 101) from one element of each of ecg3[0::2], ecg3[1::2]
ApplyPack ==
    /\ pc = "arg"
    /\ arg \in Int16 \X Int16
    /\ res' = Pack12(arg[1], arg[2])
    /\ pc' = "packed"
    /\ UNCHANGED <<cut, file, base, header, footer, loaded, ecg_data, sample_rate,
                   annotations, ecg3, files, dat, hea, atr, exc, arg, conv, disk, app>>

SpecPack == InitPack /\ [][ApplyPack]_vars

InitQuant == Idle /\ pc = "arg" /\ arg \in Int16 /\ res = None

\* one raw code through lines 43-44 and line 82
ApplyQuant ==
    /\ pc = "arg"
    /\ arg \in Int16
    /\ res' = Requantize(ToPhysical(arg))
    /\ pc' = "quantized"
    /\ UNCHANGED <<cut, file, base, header, footer, loaded, ecg_data, sample_rate,
                   annotations, ecg3, files, dat, hea, atr, exc, arg, conv, disk, app>>

SpecQuant == InitQuant /\ [][ApplyQuant]_vars


(***************************************************************************)
(* The sample-rate resolution applied to every pair of header bytes 2, 3.  *)
(***************************************************************************)
InitRate == Idle /\ pc = "arg" /\ arg \in (0..255) \X (0..255) /\ res = None

\* lines 46-47 on a header whose bytes 2 and 3 are arg
ApplyRate ==
    /\ pc = "arg"
    /\ arg \in (0..255) \X (0..255)
    /\ res' = ResolveRate([len |-> HEADER_SIZE, bytes |-> <<0, 0, arg[1], arg[2]>>])
    /\ pc' = "rated"
    /\ UNCHANGED <<cut, file, base, header, footer, loaded, ecg_data, sample_rate,
                   annotations, ecg3, files, dat, hea, atr, exc, arg, conv, disk, app>>

SpecRate == InitRate /\ [][ApplyRate]_vars

(***************************************************************************)
(* extract_annotations applied to footers: up to MaxSlots leading slots    *)
(* drawn from SlotChoices, and single slots over every symbol byte.        *)
(***************************************************************************)
MaxSlots == 5

\* (position, symbol byte) of a slot
SlotChoices == {<<0, 65>>, <<10, 43>>, <<30, 86>>, <<30, 70>>, <<50, 65>>, <<80, 10>>}

SlotBytes(pos, code, fourth) == <<pos % 256, pos \div 256, code, fourth>>

FootersOfSlots ==
    UNION {{FlattenRows([i \in 1..n |-> SlotBytes(f[i][1], f[i][2], 0)]) :
               f \in [1..n -> SlotChoices]} : n \in 0..MaxSlots}

FootersOfOneSlot ==
    {SlotBytes(pos, code, fourth) :
        pos \in {0, 1, 256, 65535}, code \in 0..255, fourth \in {0, 7, 255}}

InitAnn == Idle /\ pc = "arg" /\ arg \in FootersOfSlots \cup FootersOfOneSlot /\ res = None

\* extract_annotations on a 1024-byte footer whose leading bytes are arg
ApplyExtract ==
    /\ pc = "arg"
    /\ arg \in Seq(0..255)
    /\ res' = ExtractAnnotations([len |-> FOOTER_SIZE, bytes |-> arg])
    /\ pc' = "extracted"
    /\ UNCHANGED <<cut, file, base, header, footer, loaded, ecg_data, sample_rate,
                   annotations, ecg3, files, dat, hea, atr, exc, arg, conv, disk, app>>

SpecAnn == InitAnn /\ [][ApplyExtract]_vars

(***************************************************************************)
(* extract_annotations on footers with all 256 slots in use: the positions *)
(* low + 1 .. low + 256 in slot order, two neighbours exchanged.           *)
(***************************************************************************)
MaxSwap == 59

NSlots == FOOTER_SIZE \div 4

FullPos(low, r, i) ==
    low + (IF r > 0 /\ i = r THEN i + 1 ELSE IF r > 0 /\ i = r + 1 THEN i - 1 ELSE i)

FullFooter(low, r) ==
    [j \in 1..FOOTER_SIZE |->
        SlotBytes(FullPos(low, r, ((j - 1) \div 4) + 1), 65, 0)[((j - 1) % 4) + 1]]

FullFooters == {FullFooter(low, r) : low \in {0, 65535 - NSlots}, r \in 0..MaxSwap}

InitFull == Idle /\ pc = "arg" /\ arg \in FullFooters /\ res = None

SpecFull == InitFull /\ [][ApplyExtract]_vars

(***************************************************************************)
(* Several conversions, each with its own BinConverter instance and its    *)
(* own output directory (tempfile.mkdtemp, app.py), their steps            *)
(* interleaved; a converter may be run again by its caller.  The output    *)
(* directories are writable and wrann accepts the stream.                  *)
(***************************************************************************)
ConvIds == {1, 2}

MaxRuns == 2

DirOfShared(i) == 1

\* temp_dir = tempfile.mkdtemp(): a directory of its own for each request
DirOf(i) == i

InputFile(n, p, h, f) ==
    [len |-> HEADER_SIZE + n + FOOTER_SIZE, head |-> h, body |-> Body(p, n), foot |-> f]

FileA == InputFile(12, 1, <<0, 0, 250, 0>>,
                   <<50, 0, 65, 0,  30, 0, 86, 0,  30, 0, 70, 7,  80, 0, 10, 0,  10, 0, 43, 0>>)

FileAHeader == [FileA EXCEPT !.head = <<66, 1, 250, 0>>]

FileB == InputFile(36, 2, <<0, 0, 244, 1>>, <<>>)

FileBHeader == [FileB EXCEPT !.head = <<0, 9, 244, 1, 7>>]

FileC == InputFile(10, 2, <<66, 1, 136, 19>>, <<7, 0, 78, 0,  0, 0, 0, 0,  7, 0, 65, 0,  3, 0, 200, 0>>)

FileOdd == InputFile(1, 1, <<0, 0, 250, 0>>, <<>>)

FileSmall == [len |-> 1000, head |-> <<>>, body |-> <<>>, foot |-> <<>>]

SomeFiles == {FileA, FileAHeader, FileB, FileBHeader, FileC, FileOdd, FileSmall}

\* BinConverter.__init__
NewConverter(f, d) ==
    [file |-> f, dir |-> d, pc |-> "new", runs |-> 1,
     header |-> [len |-> 0, bytes |-> <<>>], footer |-> [len |-> 0, bytes |-> <<>>],
     loaded |-> FALSE, ecg_data |-> <<>>, sample_rate |-> 0, annotations |-> <<>>,
     ecg3 |-> <<>>, exc |-> None]

EmptyDir == [files |-> {}, dat |-> <<>>, hea |-> <<>>, atr |-> NoAnnotationFile]

InitSome ==
    /\ file = [len |-> 0, head |-> <<>>, body |-> <<>>, foot |-> <<>>]
    /\ Fresh
    /\ pc = "several"
    /\ arg = None
    /\ res = None
    /\ \E fs \in [ConvIds -> SomeFiles] : conv = [i \in ConvIds |-> NewConverter(fs[i], DirOf(i))]
    /\ disk = [d \in ConvIds |-> EmptyDir]
    /\ app = NoApp

\* analyze_file_structure on the converter c
AnalyzeStep(c) ==
    IF TooSmall(c.file.len)
    THEN [c EXCEPT !.pc = "failed", !.exc = "ValueError"]
    ELSE IF ViewFails(c.file.body)
    THEN [c EXCEPT !.header = [len |-> HEADER_SIZE, bytes |-> c.file.head],
                   !.footer = [len |-> FOOTER_SIZE, bytes |-> c.file.foot],
                   !.pc = "failed", !.exc = "ValueError"]
    ELSE [c EXCEPT !.header = [len |-> HEADER_SIZE, bytes |-> c.file.head],
                   !.footer = [len |-> FOOTER_SIZE, bytes |-> c.file.foot],
                   !.ecg_data = [i \in 1..(Len(c.file.body) \div 2) |->
                                    ToPhysical(ViewInt16(c.file.body)[i])],
                   !.sample_rate = ResolveRate([len |-> HEADER_SIZE, bytes |-> c.file.head]),
                   !.loaded = TRUE, !.pc = "analyzed", !.exc = None]

StoredAnnotationsExtended(old, buf) == old \o ExtractAnnotations(buf)

\* self.annotations = clean (line 74): the list of this call replaces the old one
StoredAnnotations(old, buf) == ExtractAnnotations(buf)

AnalyzeOf(i) ==
    /\ conv[i].pc = "new"
    /\ conv' = [conv EXCEPT ![i] = AnalyzeStep(conv[i])]
    /\ UNCHANGED <<cut, file, base, pc, header, footer, loaded, ecg_data, sample_rate,
                   annotations, ecg3, files, dat, hea, atr, exc, arg, res, disk, app>>

WriteDatOf(i) ==
    /\ conv[i].pc = "analyzed"
    /\ conv' = [conv EXCEPT ![i].ecg3 = Frames(conv[i].ecg_data), ![i].pc = "dat"]
    /\ disk' = [disk EXCEPT ![conv[i].dir].files = @ \cup {"dat"},
                            ![conv[i].dir].dat = PackedBytes(conv'[i].ecg3)]
    /\ UNCHANGED <<cut, file, base, pc, header, footer, loaded, ecg_data, sample_rate,
                   annotations, ecg3, files, dat, hea, atr, exc, arg, res, app>>

WriteHeaOf(i) ==
    /\ conv[i].pc = "dat"
    /\ conv' = [conv EXCEPT ![i].pc = "hea"]
    /\ disk' = [disk EXCEPT ![conv[i].dir].files = @ \cup {"hea"},
                            ![conv[i].dir].hea =
                                HeaLines(base, Len(conv[i].ecg3), conv[i].sample_rate)]
    /\ UNCHANGED <<cut, file, base, pc, header, footer, loaded, ecg_data, sample_rate,
                   annotations, ecg3, files, dat, hea, atr, exc, arg, res, app>>

WriteAtrOf(i) ==
    LET ann == StoredAnnotations(conv[i].annotations, conv[i].footer)
    IN  /\ conv[i].pc = "hea"
        /\ conv' = [conv EXCEPT ![i].annotations = ann, ![i].pc = "done"]
        /\ disk' = IF ann # <<>>
                   THEN [disk EXCEPT ![conv[i].dir].files = @ \cup {"atr"},
                                     ![conv[i].dir].atr =
                                         [sample |-> [k \in 1..Len(ann) |-> ann[k][1]],
                                          symbol |-> [k \in 1..Len(ann) |-> ann[k][2]],
                                          fs |-> conv[i].sample_rate]]
                   ELSE disk
        /\ UNCHANGED <<cut, file, base, pc, header, footer, loaded, ecg_data, sample_rate,
                       annotations, ecg3, files, dat, hea, atr, exc, arg, res, app>>

\* the caller runs analyze_file_structure and convert_to_wfdb on the same
\* instance once more
AgainOf(i) ==
    /\ conv[i].pc \in {"done", "failed"}
    /\ conv[i].runs < MaxRuns
    /\ conv' = [conv EXCEPT ![i].pc = "new", ![i].runs = @ + 1]
    /\ UNCHANGED <<cut, file, base, pc, header, footer, loaded, ecg_data, sample_rate,
                   annotations, ecg3, files, dat, hea, atr, exc, arg, res, disk, app>>

NextSome ==
    \E i \in ConvIds :
        AnalyzeOf(i) \/ WriteDatOf(i) \/ WriteHeaOf(i) \/ WriteAtrOf(i) \/ AgainOf(i)

SpecSome == InitSome /\ [][NextSome]_vars

(***************************************************************************)
(* app.py: the upload request analyze_ecg and the analysis run             *)
(* process_analysis.  The progress store (get_db, update_progress) either  *)
(* takes a write, fails with an error that update_progress_status logs, or *)
(* has no record of the study (HTTPException 404).  A module and a POST    *)
(* either return or raise.                                                 *)
(***************************************************************************)
NModules == 8       \* len(modules)

NumWorkers == 2

Items == 1..NModules

Absent == [status |-> "absent", step |-> 0]

UploadKinds == {".BIN", ".xcm", ".hea"}

IdleWorkers == [i \in 1..NumWorkers |-> [st |-> "none", item |-> 0]]

AppAt(req, run, dir, progress, kind) ==
    [req |-> req, run |-> run, dir |-> dir, progress |-> progress, kind |-> kind,
     tryres |-> "none", http |-> 0, log |-> <<>>, last |-> "none", step |-> 0, raised |-> 0,
     cause |-> "none",
     queue |-> <<>>, unfinished |-> 0, w |-> IdleWorkers,
     takes |-> [k \in Items |-> 0], posts |-> [k \in Items |-> 0],
     dones |-> [k \in Items |-> 0], failed |-> {}]

\* a request that reaches analyze_ecg, or process_analysis called on a
\* directory made by mkdtemp
InitApp ==
    /\ file = [len |-> 0, head |-> <<>>, body |-> <<>>, foot |-> <<>>]
    /\ Fresh
    /\ conv = <<>>
    /\ disk = <<>>
    /\ pc = "app"
    /\ arg = None
    /\ res = None
    /\ \/ \E kind \in UploadKinds : app = AppAt("start", "none", "none", Absent, kind)
       \/ \E p \in {Absent, [status |-> "PROCESSING", step |-> 0]} :
              app = AppAt("none", "start", "present", p, ".hea")

\* update_progress_status: what get_db and update_progress may do.  The row
\* is found and written ("written"); or there is no row and update_progress
\* raises the HTTPException (404), which is raised again; or get_db or the
\* store raises another exception before the commit, which is logged and not
\* raised ("swallowed"); or the row is committed (progress_crud.py line 15)
\* and db.refresh (line 16) raises, which is logged and not raised with the
\* row holding the new values ("committed").
UpdateOutcomes(a) ==
    IF a.progress.status = "absent" THEN {"HTTPException", "swallowed"}
    ELSE {"written", "swallowed", "committed"}

\* update_progress_status(study_id, step, status) with the outcome o; last
\* is how the call ended for its caller: after a commit followed by a failed
\* refresh the exception was swallowed
Updated(a, step, status, o) ==
    [a EXCEPT !.log = Append(@, <<"update", step, status>>),
              !.last = IF o = "committed" THEN "swallowed" ELSE o,
              !.progress = IF o \in {"written", "committed"}
                           THEN [status |-> status, step |-> step] ELSE @]

RemoveTreeKeeps(d) == d

\* shutil.rmtree(temp_dir)
RemoveTree(d) == IF d = "present" THEN "removed" ELSE d

(* analyze_ecg *)

\* lines 184-192, and mkdtemp at line 194.  The row is committed and the
\* directory made; or get_db or create_progress raises before the commit
\* (HTTP 500, no row); or the row is committed and then db.refresh
\* (progress_crud.py line 29) or mkdtemp raises: the request ends with
\* status 500, the row stays and there is no directory.
CreateProgress ==
    /\ app.req = "start"
    /\ \/ app' = [app EXCEPT !.progress = [status |-> "PROCESSING", step |-> 0],
                             !.dir = "present", !.req = "try"]
       \/ app' = [app EXCEPT !.http = 500, !.req = "responded"]
       \/ app' = [app EXCEPT !.progress = [status |-> "PROCESSING", step |-> 0],
                             !.http = 500, !.req = "responded"]
    /\ UNCHANGED <<cut, file, base, pc, header, footer, loaded, ecg_data, sample_rate,
                   annotations, ecg3, files, dat, hea, atr, exc, arg, res, conv, disk>>

\* async def saveTempFiles(files): one parameter
SaveTempFilesParameters == 1

\* the call saveTempFiles(temp_dir, files) of line 196
SaveTempFiles(nargs) == IF nargs = SaveTempFilesParameters THEN "ok" ELSE "TypeError"

\* lines 196-206: the upload is saved, then converted according to its kind
TryOutcome(kind, converted) ==
    IF SaveTempFiles(2) # "ok" THEN SaveTempFiles(2)
    ELSE IF kind \in {".xcm", ".BIN"} THEN converted
    ELSE "ok"

AfterTryAlwaysSchedules(a, outcome) ==
    [a EXCEPT !.tryres = outcome, !.req = "responded", !.http = 200, !.run = "start"]

\* lines 208-223: an exception goes to the handler, otherwise process_analysis
\* is added to the background tasks and the request returns
AfterTry(a, outcome) ==
    IF outcome = "ok"
    THEN [a EXCEPT !.tryres = outcome, !.req = "responded", !.http = 200, !.run = "start"]
    ELSE [a EXCEPT !.tryres = outcome, !.req = "except"]

TryBlock ==
    /\ app.req = "try"
    /\ \E converted \in {"ok", "ValueError", "OSError"} :
           app' = AfterTry(app, TryOutcome(app.kind, converted))
    /\ UNCHANGED <<cut, file, base, pc, header, footer, loaded, ecg_data, sample_rate,
                   annotations, ecg3, files, dat, hea, atr, exc, arg, res, conv, disk>>

\* lines 208-211
Handler ==
    /\ app.req = "except"
    /\ \E o \in UpdateOutcomes(app) :
           LET a1 == Updated(app, 0, "FAILED", o)
           IN  app' = IF o = "HTTPException"
                      THEN [a1 EXCEPT !.http = 404, !.req = "responded"]
                      ELSE [a1 EXCEPT !.dir = RemoveTree(@), !.http = 400,
                                      !.req = "responded"]
    /\ UNCHANGED <<cut, file, base, pc, header, footer, loaded, ecg_data, sample_rate,
                   annotations, ecg3, files, dat, hea, atr, exc, arg, res, conv, disk>>

(* process_analysis *)

Event(kind, step, status) == <<kind, step, status>>

\* line 132
StartRun ==
    /\ app.run = "start"
    /\ \E o \in UpdateOutcomes(app) :
           LET a1 == Updated(app, 0, "PROCESSING", o)
           IN  app' = IF o = "HTTPException"
                      THEN [a1 EXCEPT !.run = "except"]
                      ELSE [a1 EXCEPT !.run = "module", !.step = 1]
    /\ UNCHANGED <<cut, file, base, pc, header, footer, loaded, ecg_data, sample_rate,
                   annotations, ecg3, files, dat, hea, atr, exc, arg, res, conv, disk>>

\* lines 113-127: the keyword arguments each entry of the module list passes
Keywords ==
    <<{"upload_dir", "num_parts", "samples_per_part", "frequency"},
      {"UPLOAD_DIR", "frequency"},
      {"UPLOAD_DIR"},
      {"UPLOAD_DIR"},
      {"UPLOAD_DIR", "frequency"},
      {"upload_dir"},
      {"upload_dir", "frequency"},
      {"upload_dir", "frequency"}>>

\* the parameters of get_segments, get_frequencies_chart, analyze_residual,
\* analyze_disturbances, get_metrics, get_segmentation_st, get_arrhythmias
\* and get_full_analysis (each api.py); every one has a default or is passed
Parameters ==
    <<{"upload_dir", "num_parts", "frequency", "samples_per_part"},
      {"UPLOAD_DIR", "frequency"},
      {"UPLOAD_DIR"},
      {"UPLOAD_DIR", "study_id", "user_id"},
      {"UPLOAD_DIR", "frequency"},
      {"upload_dir", "st_offset_ms"},
      {"upload_dir", "frequency"},
      {"UPLOAD_DIR", "frequency"}>>

\* line 140, func(**kwargs): a keyword that is no parameter of the function
\* raises TypeError before the function runs
Binds(k) == Keywords[k] \subseteq Parameters[k]

FailedStepZero(step) == 0

\* the step written at line 146
FailedStep(step) == step

\* lines 144-147: the handler of the loop body, then return (or the
\* HTTPException of the update goes to the outer handler)
AfterModuleFailure(a, o) ==
    LET a1 == Updated(a, FailedStep(a.step), "FAILED", o)
    IN  [a1 EXCEPT !.run = IF o = "HTTPException" THEN "except" ELSE "finally"]

\* lines 135-147: the module of this step returns and the step is recorded;
\* an HTTPException of that update is caught by the handler of the loop body
ModuleReturns ==
    /\ app.run = "module"
    /\ Binds(app.step)
    /\ \E o \in UpdateOutcomes(app) :
           LET a1 == [app EXCEPT !.log = Append(@, Event("module", app.step, ""))]
               a2 == Updated(a1, app.step, "PROCESSING", o)
           IN  IF o = "HTTPException"
               THEN \E o2 \in UpdateOutcomes(a2) : app' = AfterModuleFailure(a2, o2)
               ELSE app' = IF app.step = NModules
                           THEN [a2 EXCEPT !.run = "queue"]
                           ELSE [a2 EXCEPT !.step = @ + 1]
    /\ UNCHANGED <<cut, file, base, pc, header, footer, loaded, ecg_data, sample_rate,
                   annotations, ecg3, files, dat, hea, atr, exc, arg, res, conv, disk>>

\* lines 135-147: the call of this step raises: the module itself, or the
\* call when its keywords do not bind (cause "call")
ModuleRaises ==
    /\ app.run = "module"
    /\ \E o \in UpdateOutcomes(app) :
           app' = AfterModuleFailure(
                      [app EXCEPT !.log = Append(@, Event("module", app.step, "")),
                                  !.raised = app.step,
                                  !.cause = IF Binds(app.step) THEN "module" ELSE "call"],
                      o)
    /\ UNCHANGED <<cut, file, base, pc, header, footer, loaded, ecg_data, sample_rate,
                   annotations, ecg3, files, dat, hea, atr, exc, arg, res, conv, disk>>

WorkersCreated == [i \in 1..NumWorkers |-> [st |-> "get", item |-> 0]]

(* The statements after the loop, lines 150-164, and the workers.  They run
   when every module of the list has returned (run = "queue"). *)

\* lines 150-156: client, queue and workers are created and every result is
\* put on the queue; the workers run when the coroutine first waits (join)
EnqueueAll ==
    /\ app.run = "queue"
    /\ app' = [app EXCEPT !.w = WorkersCreated,
                          !.queue = [k \in 1..NModules |-> k],
                          !.unfinished = NModules,
                          !.run = "join"]
    /\ UNCHANGED <<cut, file, base, pc, header, footer, loaded, ecg_data, sample_rate,
                   annotations, ecg3, files, dat, hea, atr, exc, arg, res, conv, disk>>

\* lines 150-156 when json.dumps raises for the j-th result: the results
\* before it are on the queue and the workers stay
SendRaises ==
    /\ app.run = "queue"
    /\ \E j \in Items :
           app' = [app EXCEPT !.w = WorkersCreated,
                              !.queue = [k \in 1..(j - 1) |-> k],
                              !.unfinished = j - 1,
                              !.run = "except"]
    /\ UNCHANGED <<cut, file, base, pc, header, footer, loaded, ecg_data, sample_rate,
                   annotations, ecg3, files, dat, hea, atr, exc, arg, res, conv, disk>>

\* process_analysis waits in queue.join() or in client.aclose(), or has
\* ended: the other tasks of the event loop run only then
\* (update_progress_status never waits)
Suspended == app.run \in {"join", "closing", "done"}

\* http_worker.py line 3: queue.get()
WorkerGets(i) ==
    /\ Suspended
    /\ app.w[i].st = "get"
    /\ app.queue # <<>>
    /\ app' = [app EXCEPT !.w[i] = [st |-> "post", item |-> Head(app.queue)],
                          !.queue = Tail(@),
                          !.takes[Head(app.queue)] = @ + 1]
    /\ UNCHANGED <<cut, file, base, pc, header, footer, loaded, ecg_data, sample_rate,
                   annotations, ecg3, files, dat, hea, atr, exc, arg, res, conv, disk>>

\* http_worker.py lines 4-11: the POST returns or raises, then task_done
Posted(a, i, outcome) ==
    LET k == a.w[i].item
    IN  [a EXCEPT !.posts[k] = @ + 1,
                  !.failed = IF outcome = "raised" THEN @ \cup {k} ELSE @,
                  !.dones[k] = @ + 1,
                  !.unfinished = @ - 1,
                  !.w[i] = [st |-> "get", item |-> 0]]

WorkerPosts(i) ==
    /\ Suspended
    /\ app.w[i].st = "post"
    /\ \E outcome \in {"ok", "raised"} : app' = Posted(app, i, outcome)
    /\ UNCHANGED <<cut, file, base, pc, header, footer, loaded, ecg_data, sample_rate,
                   annotations, ecg3, files, dat, hea, atr, exc, arg, res, conv, disk>>

Cancelled == [i \in 1..NumWorkers |-> [st |-> "cancelled", item |-> 0]]

\* lines 159-162: join returns, the workers are cancelled and process_analysis
\* waits in client.aclose()
JoinReturns ==
    /\ app.run = "join"
    /\ app.unfinished = 0
    /\ app' = [app EXCEPT !.w = Cancelled, !.run = "closing"]
    /\ UNCHANGED <<cut, file, base, pc, header, footer, loaded, ecg_data, sample_rate,
                   annotations, ecg3, files, dat, hea, atr, exc, arg, res, conv, disk>>

\* lines 162-164: aclose returns and SUCCESS is written, or aclose raises
ClientClosed ==
    /\ app.run = "closing"
    /\ \/ \E o \in UpdateOutcomes(app) :
              app' = [Updated(app, NModules, "SUCCESS", o) EXCEPT
                          !.run = IF o = "HTTPException" THEN "except" ELSE "finally"]
       \/ app' = [app EXCEPT !.run = "except"]
    /\ UNCHANGED <<cut, file, base, pc, header, footer, loaded, ecg_data, sample_rate,
                   annotations, ecg3, files, dat, hea, atr, exc, arg, res, conv, disk>>

\* lines 166-168
OuterHandler ==
    /\ app.run = "except"
    /\ \E o \in UpdateOutcomes(app) :
           app' = [Updated(app, 0, "FAILED", o) EXCEPT !.run = "finally"]
    /\ UNCHANGED <<cut, file, base, pc, header, footer, loaded, ecg_data, sample_rate,
                   annotations, ecg3, files, dat, hea, atr, exc, arg, res, conv, disk>>

\* lines 169-171
Finally ==
    /\ app.run = "finally"
    /\ app' = [app EXCEPT !.dir = RemoveTree(@), !.run = "done"]
    /\ UNCHANGED <<cut, file, base, pc, header, footer, loaded, ecg_data, sample_rate,
                   annotations, ecg3, files, dat, hea, atr, exc, arg, res, conv, disk>>

\* the statements after the loop and the steps of the workers
Delivery ==
    \/ EnqueueAll \/ SendRaises \/ JoinReturns \/ ClientClosed
    \/ \E i \in 1..NumWorkers : WorkerGets(i) \/ WorkerPosts(i)

\* The steps of analyze_ecg and process_analysis.  The call of the last module
\* never binds (Binds(NModules) is false), so the loop never ends normally
\* and no step of Delivery is ever enabled: run = "queue" is not reached.
NextApp ==
    \/ CreateProgress \/ TryBlock \/ Handler
    \/ StartRun \/ ModuleReturns \/ ModuleRaises
    \/ OuterHandler \/ Finally

\* the same with the statements after the loop: it has the same behaviours
NextAppDelivery == NextApp \/ Delivery

SpecAppDelivery == InitApp /\ [][NextAppDelivery]_vars

SpecApp == InitApp /\ [][NextApp]_vars

\* the event loop runs every task that can run; modules and POSTs end
SpecAppFair == SpecApp /\ WF_vars(NextApp)

(***************************************************************************)
(* Properties.                                                             *)
(***************************************************************************)
SignExtend12(x) == IF x >= 2048 THEN x - 4096 ELSE x

\* the reader's side of the packing: the low and the high 12 bits of a word
Unpack12(word) == <<SignExtend12(word % 4096), SignExtend12(word \div 4096)>>

InRange12(v) == -2048 <= v /\ v <= 2047

\* C1: two values of [-2048, 2047], packed and then unpacked (low and high 12
\* bits, sign-extended), come back unchanged.
C1_RoundTripPacking ==
    (pc = "packed" /\ InRange12(arg[1]) /\ InRange12(arg[2])) => Unpack12(res) = arg

C1_Witness ==
    pc = "packed" /\ arg = <<-2048, 2047>> /\ Unpack12(res) = <<-2048, 2047>>

\* C2: a value is stored modulo 4096 and never saturated: each 12-bit field of
\* the word is the value's residue, v and v + 4096 pack alike, and 2048 gives
\* the bytes of -2048.
C2_WrapNotClamp ==
    pc = "packed" =>
        /\ res % 4096 = arg[1] % 4096
        /\ res \div 4096 = arg[2] % 4096
        /\ (arg[1] + 4096 \in Int16 => Pack12(arg[1] + 4096, arg[2]) = res)
        /\ (arg[2] + 4096 \in Int16 => Pack12(arg[1], arg[2] + 4096) = res)
        /\ (arg[1] = 2048 => Low3(LE4(res)) = Low3(LE4(Pack12(-2048, arg[2]))))
        /\ (arg[1] > 2047 /\ arg[1] % 4096 # 2047 => res % 4096 # 2047)
        /\ (arg[1] < -2048 /\ arg[1] % 4096 # 2048 => res % 4096 # 2048)

C2_Witness ==
    pc = "packed" /\ arg[1] = 2048 /\ res % 4096 = 2048 /\ res = Pack12(-2048, arg[2])

\* the file is there and was written to its end
Written(name) == name \in files /\ cut # name

PairIndexes == 0..((Len(ecg3) \div 2) - 1)

\* the 12-bit fields of (pair k, channel c), by arithmetic on the frame values
EvenField(k, c) == ecg3[(2 * k) + 1][c] % 4096

OddField(k, c) == ecg3[(2 * k) + 2][c] % 4096

UnitOffset(k, c) == (9 * k) + (3 * (c - 1))

\* C3: the 3 bytes of (pair k, channel c) are the low three little-endian bytes
\* of (odd field << 12) | even field, a quantity below 2^24 whose 4th byte is 0.
C3_PackedUnitLayout ==
    Written("dat") =>
        \A k \in PairIndexes : \A c \in 1..NCHANNELS :
            LET packed == (OddField(k, c) * 4096) + EvenField(k, c)
                off == UnitOffset(k, c)
                word == Pack12(ecg3[(2 * k) + 1][c], ecg3[(2 * k) + 2][c])
            IN  /\ word = packed
                /\ word < 16777216
                /\ LE4(word)[4] = 0
                /\ dat[off + 1] = packed % 256
                /\ dat[off + 2] = (packed \div 256) % 256
                /\ dat[off + 3] = packed \div 65536

C3_Witness ==
    /\ Written("dat")
    /\ Len(dat) >= 18
    /\ \E k \in PairIndexes : \E c \in 1..NCHANNELS :
          /\ ecg3[(2 * k) + 2][c] < -2048
          /\ dat[UnitOffset(k, c) + 3] = OddField(k, c) \div 16

\* C4: the .dat file is exactly the units in pair-major, channel-minor order:
\* 9 bytes per pair, and the unit at offset 9k + 3c holds the fields of
\* (pair k, channel c).
C4_EmissionOrder ==
    Written("dat") =>
        /\ Len(dat) = 9 * (Len(ecg3) \div 2)
        /\ \A k \in PairIndexes : \A c \in 1..NCHANNELS :
              LET off == UnitOffset(k, c)
              IN  Unpack12(dat[off + 1] + (256 * dat[off + 2]) + (65536 * dat[off + 3]))
                    = <<SignExtend12(EvenField(k, c)), SignExtend12(OddField(k, c))>>

C4_Witness ==
    /\ Written("dat")
    /\ Len(dat) = 27
    /\ ecg3[1] # ecg3[3]
    /\ ecg3[1][1] # ecg3[1][2]
    /\ Unpack12(dat[13] + (256 * dat[14]) + (65536 * dat[15])) = <<ecg3[3][2], ecg3[4][2]>>

RetainedTable == <<0, 0, 0, 0, 0, 6, 6, 6, 6, 6, 6, 12, 12, 12>>

\* C5: the retained sample count depends on the raw sample count n alone: n is
\* made even, divided by 3 and the quotient made even by dropping one; for
\* n = 0..13 the count is 0,0,0,0,0,6,6,6,6,6,6,12,12,12.
C5_ShapeNormalization ==
    Written("dat") =>
        LET n == Len(ecg_data)
            padded == IF n % 2 = 1 THEN n + 1 ELSE n
            n_frames == padded \div 3
            paired == IF n_frames % 2 = 1 THEN n_frames - 1 ELSE n_frames
        IN  /\ Len(ecg3) = paired
            /\ \A i \in 1..Len(ecg3) : Len(ecg3[i]) = 3
            /\ (n <= 13 => 3 * Len(ecg3) = RetainedTable[n + 1])

C5_Witness == Written("dat") /\ Len(ecg_data) = 5 /\ Len(ecg3) = 2

\* C6: the count packed for the raw code r is r/5 rounded to the nearest
\* integer (3 gives 1, -3 gives -1).
C6_RoundedCount == pc = "quantized" => res = ((2 * arg) + 5) \div 10

\* C7: the .hea file is 4 lines: "<base> 3 <n_frames> <rate>", then
\* "ECG 212 1 0 <3*i> 200 0 mV" for i = 0, 1, 2.
C7_HeaderEmission ==
    Written("hea") =>
        /\ Len(hea) = 4
        /\ hea[1] = base \o " 3 " \o Str(Len(ecg3)) \o " " \o Str(sample_rate)
        /\ (Len(ecg3) = 6 /\ sample_rate = 250 => hea[1] = "rec 3 6 250")
        /\ (Len(ecg3) = 0 /\ sample_rate = 256 => hea[1] = "rec 3 0 256")
        /\ (Len(ecg3) = 4 /\ sample_rate = 1000 => hea[1] = "rec 3 4 1000")
        /\ 9 * Len(ecg3) = 2 * Len(dat)
        /\ hea[2] = "ECG 212 1 0 0 200 0 mV"
        /\ hea[3] = "ECG 212 1 0 3 200 0 mV"
        /\ hea[4] = "ECG 212 1 0 6 200 0 mV"
        /\ Str(COUNTS_PER_MV) = "200"

C7_Witness ==
    Written("hea") /\ Len(ecg3) = 6 /\ sample_rate = 250 /\ hea[1] = "rec 3 6 250"

\* header bytes [2:4] = FA 00, 18 samples 100, -100, 200, -200, ..., zero footer
Scenario ==
    /\ file.len = HEADER_SIZE + 36 + FOOTER_SIZE
    /\ file.head[3] = 250
    /\ file.head[4] = 0
    /\ ViewInt16(file.body) = <<100, -100, 200, -200, 300, -300, 400, -400, 500, -500,
                                600, -600, 700, -700, 800, -800, 900, -900>>
    /\ file.foot = <<>>

\* C8, as the code has it: the scenario's conversion ends with the record line
\* "<base> 3 6 250", a .dat file of 27 bytes and no .atr file.
C8_EndToEnd ==
    (pc = "done" /\ Scenario) =>
        /\ hea[1] = "rec 3 6 250"
        /\ Len(dat) = 27
        /\ files = {"dat", "hea"}

\* C8 as claimed: a .dat file of 9 bytes.
C8_AsClaimed ==
    (pc = "done" /\ Scenario) =>
        /\ hea[1] = "rec 3 6 250"
        /\ Len(dat) = 9
        /\ files = {"dat", "hea"}

C8_Witness == pc = "done" /\ Scenario /\ Len(dat) = 27

\* C9: decoding fails exactly when the input is shorter than 1536 bytes.
C9_SizePrecondition ==
    pc # "new" => ((exc = "ValueError") <=> (file.len < 1536))

\* C10: every input of 1536 bytes or more decodes, to floor((L - 1536) / 2)
\* samples.
C10_WellSizedAccepted ==
    (pc # "new" /\ file.len >= 1536) =>
        /\ exc # "ValueError"
        /\ loaded
        /\ Len(ecg_data) = (file.len - 1536) \div 2


\* C11: with d the unsigned 16-bit value of header bytes 2 and 3, the rate is
\* d when 100 <= d <= 1000 and 256 otherwise.
C11_RateResolution ==
    pc = "rated" =>
        LET d == arg[1] + (256 * arg[2])
        IN  /\ (d >= 100 /\ d <= 1000) => res = d
            /\ (d < 100 \/ d > 1000) => res = 256
            /\ (arg = <<100, 0>> => res = 100)
            /\ (arg = <<232, 3>> => res = 1000)
            /\ (arg = <<99, 0>> => res = 256)
            /\ (arg = <<233, 3>> => res = 256)

C11_Witness == pc = "rated" /\ arg = <<232, 3>> /\ res = 1000

\* C12, as the code has it: header bytes FA 00 give the rate 250 (F4 01 give
\* 500), and the bytes of 5000 give 256.
C12_RateFallback ==
    pc = "rated" =>
        /\ (arg = <<250, 0>> => res = 250)
        /\ (arg = <<244, 1>> => res = 500)
        /\ (arg = <<136, 19>> => res = 256)

\* C12 as claimed: header bytes FA 00 give the rate 500.
C12_AsClaimed ==
    pc = "rated" =>
        /\ (arg = <<250, 0>> => res = 500)
        /\ (arg = <<136, 19>> => res = 256)

C12_Witness == pc = "rated" /\ arg = <<250, 0>> /\ res = 250

\* the slots of the footer bytes arg
ArgSlots == 1..(Len(arg) \div 4)

ArgPos(i) == arg[(4 * i) - 3] + (256 * arg[(4 * i) - 2])

ArgCode(i) == arg[(4 * i) - 1]

ArgPositions == {ArgPos(i) : i \in ArgSlots} \ {0}

EarliestSlot(pos) == CHOOSE i \in ArgSlots :
                        ArgPos(i) = pos /\ \A j \in ArgSlots : ArgPos(j) = pos => i <= j

UnprintableOrSpace == (0..32) \cup (127..160) \cup {173}

\* C13: the stream holds the distinct non-zero slot positions in ascending
\* order, each once, with the symbol of the earliest slot of that position;
\* slot positions 50, 30, 30, 80, 10 give 10, 30, 50, 80.
C13_AnnotationStream ==
    pc = "extracted" =>
        /\ Len(res) = Cardinality(ArgPositions)
        /\ {res[i][1] : i \in 1..Len(res)} = ArgPositions
        /\ \A i \in 1..Len(res) : \A j \in 1..Len(res) : i < j => res[i][1] < res[j][1]
        /\ \A i \in 1..Len(res) :
              LET code == ArgCode(EarliestSlot(res[i][1]))
              IN  res[i][2] = IF code \in UnprintableOrSpace THEN 78 ELSE code
        /\ ([i \in ArgSlots |-> ArgPos(i)] = <<50, 30, 30, 80, 10>>
               => [i \in 1..Len(res) |-> res[i][1]] = <<10, 30, 50, 80>>)

C13_Witness ==
    /\ pc = "extracted"
    /\ [i \in ArgSlots |-> ArgPos(i)] = <<50, 30, 30, 80, 10>>
    /\ [i \in ArgSlots |-> ArgCode(i)] = <<65, 70, 86, 10, 43>>
    /\ res = <<<<10, 43>>, <<30, 70>>, <<50, 65>>, <<80, 78>>>>

\* C14: no record of the stream has position 0, and a slot of position 0
\* yields no record whatever its symbol byte.
C14_ZeroSentinel ==
    pc = "extracted" =>
        /\ \A i \in 1..Len(res) : res[i][1] # 0
        /\ Len(res) <= Cardinality({i \in ArgSlots : ArgPos(i) # 0})
        /\ ((\A i \in ArgSlots : ArgPos(i) = 0) => res = <<>>)

C14_Witness ==
    /\ pc = "extracted"
    /\ \E i \in ArgSlots : ArgPos(i) = 0 /\ ArgCode(i) = 65
    /\ \E i \in ArgSlots : ArgPos(i) # 0
    /\ Len(res) = 1

\* C15: the symbol of a non-empty slot is its symbol byte's character when
\* that is printable and not whitespace, 'N' (78) otherwise, whatever the
\* slot's 4th byte.
C15_SymbolMapping ==
    (pc = "extracted" /\ Len(arg) = 4 /\ ArgPos(1) # 0) =>
        /\ Len(res) = 1
        /\ res[1][1] = ArgPos(1)
        /\ res[1][2] = IF arg[3] \in UnprintableOrSpace THEN 78 ELSE arg[3]
        /\ (arg[3] = 32 => res[1][2] = 78)
        /\ (arg[3] = 65 => res[1][2] = 65)

C15_Witness ==
    pc = "extracted" /\ arg = <<255, 255, 173, 7>> /\ res = <<<<65535, 78>>>>


ZeroFooter == \A i \in 1..Len(footer.bytes) : footer.bytes[i] = 0

HasNonZeroSlot ==
    \E i \in 1..(Len(footer.bytes) \div 4) :
        footer.bytes[(4 * i) - 3] + (256 * footer.bytes[(4 * i) - 2]) # 0

\* C16: a conversion that returns has written .dat and .hea, and .atr exactly
\* when the annotation stream is not empty; an all-zero footer gives an empty
\* stream, no .atr and no error of the annotation step.
C16_OutputFiles ==
    /\ pc = "done" =>
          /\ exc = None
          /\ "dat" \in files
          /\ "hea" \in files
          /\ ("atr" \in files <=> annotations # <<>>)
          /\ ("atr" \in files <=> HasNonZeroSlot)
          /\ ("atr" \in files =>
                 /\ atr.fs = sample_rate
                 /\ atr.sample = [i \in 1..Len(annotations) |-> annotations[i][1]]
                 /\ atr.symbol = [i \in 1..Len(annotations) |-> annotations[i][2]])
    /\ (loaded /\ ZeroFooter) =>
          /\ annotations = <<>>
          /\ "atr" \notin files
          /\ exc # "WrannError"

C16_Witness ==
    /\ pc = "done"
    /\ files = {"dat", "hea", "atr"}
    /\ atr.sample = <<10, 30, 50, 80>>

\* C17: after the size failure the converter's fields have their initial
\* values and the output directory holds no file.
C17_SizeFailureLeavesNothing ==
    (pc # "new" /\ file.len < 1536) =>
        /\ pc = "failed"
        /\ exc = "ValueError"
        /\ header = [len |-> 0, bytes |-> <<>>]
        /\ footer = [len |-> 0, bytes |-> <<>>]
        /\ ~loaded
        /\ ecg_data = <<>>
        /\ sample_rate = 0
        /\ annotations = <<>>
        /\ files = {}

C17_Witness == pc = "failed" /\ file.len = 1000 /\ exc = "ValueError" /\ files = {}

(***************************************************************************)
(* Several conversions.                                                    *)
(***************************************************************************)
Finished(i) == conv[i].pc \in {"done", "failed"}

\* C18: two finished conversions of the same file, in the same converter run
\* again or in another one, whatever the other conversions did meanwhile,
\* end the same way with the same .dat and .hea contents, the same files and
\* the same annotation stream.
C18_Determinism ==
    \A i, j \in ConvIds :
        (conv[i].file = conv[j].file /\ Finished(i) /\ Finished(j)) =>
            /\ conv[i].pc = conv[j].pc
            /\ conv[i].exc = conv[j].exc
            /\ conv[i].annotations = conv[j].annotations
            /\ disk[conv[i].dir].dat = disk[conv[j].dir].dat
            /\ disk[conv[i].dir].hea = disk[conv[j].dir].hea
            /\ disk[conv[i].dir] = disk[conv[j].dir]

C18_Witness ==
    /\ conv[1].file = FileA
    /\ conv[2].file = FileA
    /\ conv[1].pc = "done"
    /\ conv[1].runs = 2
    /\ conv[2].pc = "done"
    /\ conv[2].runs = 1
    /\ conv[1].annotations = <<<<10, 43>>, <<30, 86>>, <<50, 65>>, <<80, 78>>>>
    /\ disk[1].atr.sample = <<10, 30, 50, 80>>
    /\ disk[1] = disk[2]

HeaderOf(f) == [len |-> HEADER_SIZE, bytes |-> f.head]

\* equal length, equal bytes everywhere but in the header, equal header
\* bytes at offsets 2 and 3
SameButHeader(f, g) ==
    /\ f.len = g.len
    /\ f.body = g.body
    /\ f.foot = g.foot
    /\ ByteAt(HeaderOf(f), 2) = ByteAt(HeaderOf(g), 2)
    /\ ByteAt(HeaderOf(f), 3) = ByteAt(HeaderOf(g), 3)

\* C19: two inputs that differ only in header bytes other than offsets 2 and 3
\* give the same sample rate and signal once decoded, and the same annotation
\* stream and output files once converted.
C19_HeaderNonInterference ==
    \A i, j \in ConvIds :
        SameButHeader(conv[i].file, conv[j].file) =>
            /\ (conv[i].loaded /\ conv[j].loaded) =>
                  /\ conv[i].sample_rate = conv[j].sample_rate
                  /\ conv[i].ecg_data = conv[j].ecg_data
            /\ (Finished(i) /\ Finished(j)) =>
                  /\ conv[i].pc = conv[j].pc
                  /\ conv[i].exc = conv[j].exc
                  /\ conv[i].annotations = conv[j].annotations
                  /\ disk[conv[i].dir] = disk[conv[j].dir]

C19_Witness ==
    /\ conv[1].file = FileB
    /\ conv[2].file = FileBHeader
    /\ conv[1].file.head # conv[2].file.head
    /\ conv[1].pc = "done"
    /\ conv[2].pc = "done"
    /\ conv[1].sample_rate = 500
    /\ conv[2].sample_rate = 500
    /\ disk[1].hea[1] = "rec 3 6 500"
    /\ Len(disk[1].dat) = 27
    /\ disk[1] = disk[2]

\* the files of one conversion of f run alone: decode, write .dat, write .hea,
\* write .atr when the annotation stream is not empty
AloneResult(f) ==
    LET hdr  == [len |-> HEADER_SIZE, bytes |-> f.head]
        ftr  == [len |-> FOOTER_SIZE, bytes |-> f.foot]
        fs   == ResolveRate(hdr)
        raw  == ViewInt16(f.body)
        sig  == [k \in 1..Len(raw) |-> ToPhysical(raw[k])]
        rows == Frames(sig)
        ann  == ExtractAnnotations(ftr)
    IN  IF TooSmall(f.len) \/ ViewFails(f.body)
        THEN EmptyDir
        ELSE [files |-> IF ann = <<>> THEN {"dat", "hea"} ELSE {"dat", "hea", "atr"},
              dat   |-> PackedBytes(rows),
              hea   |-> HeaLines("rec", Len(rows), fs),
              atr   |-> IF ann = <<>> THEN NoAnnotationFile
                        ELSE [sample |-> [k \in 1..Len(ann) |-> ann[k][1]],
                              symbol |-> [k \in 1..Len(ann) |-> ann[k][2]],
                              fs |-> fs]]

\* a step of the conversion i changes neither the converter nor the directory
\* of another conversion
OwnStateOnly ==
    \A i, j \in ConvIds :
        (i # j /\ conv'[i] # conv[i]) =>
            /\ conv'[j] = conv[j]
            /\ disk'[DirOf(j)] = disk[DirOf(j)]

FilesSoFar(i) ==
    LET whole == AloneResult(conv[i].file)
    IN  CASE conv[i].pc \in {"new", "analyzed"} -> EmptyDir
          [] conv[i].pc = "dat" -> [EmptyDir EXCEPT !.files = {"dat"}, !.dat = whole.dat]
          [] conv[i].pc = "hea" -> [EmptyDir EXCEPT !.files = {"dat", "hea"},
                                                   !.dat = whole.dat, !.hea = whole.hea]
          [] OTHER -> whole

\* the directory of each conversion holds what the conversion run alone has
\* written at the same point
SameAsAlone ==
    \A i \in ConvIds :
        /\ conv[i].dir = DirOf(i)
        /\ Finished(i) => disk[DirOf(i)] = AloneResult(conv[i].file)
        /\ conv[i].runs = 1 => disk[DirOf(i)] = FilesSoFar(i)

\* C20: in every interleaving of the steps of two conversions with separate
\* converters and distinct output directories, each conversion writes the
\* files it writes when run alone, and no step of one touches the converter
\* or the directory of the other.
C20_IndependentConversions == []SameAsAlone /\ [][OwnStateOnly]_vars

C20_Witness ==
    /\ conv[1].file = FileA
    /\ conv[2].file = FileB
    /\ conv[1].pc = "done"
    /\ conv[2].pc = "done"
    /\ disk[1].files = {"dat", "hea", "atr"}
    /\ disk[1].hea[1] = "rec 3 2 250"
    /\ Len(disk[1].dat) = 9
    /\ disk[2].files = {"dat", "hea"}
    /\ disk[2].hea[1] = "rec 3 6 500"
    /\ Len(disk[2].dat) = 27
    /\ disk[1] = AloneResult(FileA)
    /\ disk[2] = AloneResult(FileB)

(***************************************************************************)
(* Frame conditions and bounds of one conversion.                          *)
(***************************************************************************)
DeclaredRate == ResolveRate([len |-> HEADER_SIZE, bytes |-> file.head])

RateAsResolved ==
    /\ loaded => sample_rate = DeclaredRate
    /\ Written("hea") => hea[1] = "rec 3 " \o Str(Len(ecg3)) \o " " \o Str(DeclaredRate)
    /\ Written("atr") => atr.fs = DeclaredRate

RateKept == loaded => sample_rate' = sample_rate

\* C21: the rate resolved by analyze_file_structure is the one in the .hea
\* record line and the one given to the annotation writer, and no later step
\* changes it.
C21_RateWriteOnce == []RateAsResolved /\ [][RateKept]_vars

C21_Witness ==
    /\ pc = "done"
    /\ file.head[3] = 244
    /\ file.head[4] = 1
    /\ sample_rate = 500
    /\ Written("atr")
    /\ atr.fs = 500
    /\ hea[1] = "rec 3 " \o Str(Len(ecg3)) \o " 500"

\* C22: with q the re-quantized samples and n their number, the frames hold
\* frame[i][c] = q[3i + c] wherever 3i + c < n; 6 * floor((n + 1) / 6) values
\* are retained: n mod 6 samples are dropped when n mod 6 <= 4, and when
\* n mod 6 = 5 one more value than n is retained, a copy of q[n - 1].
C22_RetainedSamples ==
    Written("dat") =>
        LET q == RawInt(ecg_data)
            n == Len(q)
            kept == 3 * Len(ecg3)
        IN  /\ kept = 6 * ((n + 1) \div 6)
            /\ \A i \in 0..(Len(ecg3) - 1) : \A c \in 0..2 :
                   ((3 * i) + c < n) => ecg3[i + 1][c + 1] = q[(3 * i) + c + 1]
            /\ (n % 6 <= 4) => kept = n - (n % 6)
            /\ (n % 6 = 5) => (kept = n + 1 /\ ecg3[Len(ecg3)][3] = q[n])

C22_Witness ==
    /\ Written("dat")
    /\ Len(ecg_data) = 11
    /\ Len(ecg3) = 4
    /\ ecg3[4][3] = ecg3[4][2]
    /\ ecg3[4][3] = Requantize(ecg_data[11])
    /\ ecg3[4][3] # 0

MaxFramesWritten == (MaxBody + 1) \div 6

\* C23: the frame count of the .hea record line is even and the .dat file has
\* 9 bytes for every two frames; with no frame the .dat file is empty and the
\* record line reads "<base> 3 0 <rate>".
C23_HeaderDataConsistency ==
    Written("hea") =>
        /\ \E h \in 0..MaxFramesWritten :
              /\ hea[1] = base \o " 3 " \o Str(2 * h) \o " " \o Str(sample_rate)
              /\ Len(dat) = 9 * h
        /\ (Len(ecg3) = 0) =>
              (dat = <<>> /\ hea[1] = base \o " 3 0 " \o Str(sample_rate))

C23_Witness ==
    /\ Written("hea")
    /\ Len(ecg_data) = 4
    /\ dat = <<>>
    /\ hea[1] = "rec 3 0 250"

\* C24: every raw code gives a count in [-6554, 6554], inside the int16
\* range, and the 12-bit field stands for another value exactly when the count
\* is outside [-2048, 2047].
C24_RequantizedRange ==
    pc = "quantized" =>
        /\ -6554 <= res /\ res <= 6554
        /\ res \in Int16
        /\ (SignExtend12(Mask12(res)) # res) <=> ~InRange12(res)

C24_Witness ==
    /\ pc = "quantized"
    /\ arg = 32767
    /\ res = 6553
    /\ Mask12(res) = 2457
    /\ SignExtend12(Mask12(res)) = -1639

OutputOrder ==
    /\ "hea" \in files => Written("dat")
    /\ "atr" \in files => (Written("dat") /\ Written("hea"))
    /\ (pc = "failed" /\ exc = "OSError") => files \in {{}, {"dat"}, {"dat", "hea"}}
    /\ (pc = "failed" /\ exc = "WrannError") =>
          /\ {"dat", "hea"} \subseteq files
          /\ Written("dat")
          /\ Written("hea")

NoRollbackNoRetry ==
    /\ files \subseteq files'
    /\ pc # "failed"
    /\ Written("dat") => dat' = dat
    /\ Written("hea") => hea' = hea

\* C25: .dat is written before .hea and .hea before .atr; a failure leaves
\* what was written and ends the conversion.
C25_OutputOrdering == []OutputOrder /\ [][NoRollbackNoRetry]_vars

C25_Witness ==
    /\ pc = "failed"
    /\ exc = "WrannError"
    /\ files = {"dat", "hea"}
    /\ Len(dat) = 18
    /\ annotations # <<>>

\* C26: the stream of a 1024-byte footer has at most 256 records, every
\* position is in 1..65535, and the positions are the non-zero slot positions
\* as they stand in the footer, none dropped or changed.
C26_AnnotationBounds ==
    pc = "extracted" =>
        /\ Len(res) <= 256
        /\ \A i \in 1..Len(res) : 1 <= res[i][1] /\ res[i][1] <= 65535
        /\ {res[i][1] : i \in 1..Len(res)} = ArgPositions

C26_Witness ==
    /\ pc = "extracted"
    /\ Len(arg) = 1024
    /\ ArgPos(3) < ArgPos(2)
    /\ Len(res) = 256
    /\ res[1][1] = 65280
    /\ res[256][1] = 65535

(***************************************************************************)
(* The upload request and the analysis run.                                *)
(***************************************************************************)
Log == app.log

IsModule(e) == e[1] = "module"

ModulesRun == SelectSeq(Log, IsModule)

Wrote(p, step, status) == Log[p] = <<"update", step, status>>

ProgressProtocol ==
    app.run # "none" =>
        /\ \A j \in 1..Len(ModulesRun) : ModulesRun[j][2] = j
        /\ \A p \in 1..Len(Log) :
              /\ IsModule(Log[p]) => (p > 1 /\ Wrote(p - 1, Log[p][2] - 1, "PROCESSING"))
              /\ (IsModule(Log[p]) /\ p < Len(Log)) =>
                     Wrote(p + 1, Log[p][2],
                           IF app.raised = Log[p][2] THEN "FAILED" ELSE "PROCESSING")
              /\ (~IsModule(Log[p]) /\ Log[p][3] = "FAILED") =>
                     \A q \in (p + 1)..Len(Log) : ~IsModule(Log[q]) /\ Log[q][3] = "FAILED"
        /\ app.raised # 0 =>
              /\ Len(ModulesRun) = app.raised
              /\ app.run \in {"except", "finally", "done"}
              /\ \E p \in 1..(Len(Log) - 1) :
                    Log[p] = <<"module", app.raised, "">> /\ Wrote(p + 1, app.raised, "FAILED")

\* C27: the modules run in list order, (k, PROCESSING) is written between
\* module k and module k + 1, the first module that raises is followed by
\* (its step, FAILED) and by no other module, and nothing but FAILED is
\* written after a FAILED.
C27_ProgressProtocol == ProgressProtocol

C27_Witness ==
    /\ app.run = "done"
    /\ app.raised = 3
    /\ Log = <<<<"update", 0, "PROCESSING">>,
               <<"module", 1, "">>, <<"update", 1, "PROCESSING">>,
               <<"module", 2, "">>, <<"update", 2, "PROCESSING">>,
               <<"module", 3, "">>, <<"update", 3, "FAILED">>>>
    /\ app.progress = [status |-> "FAILED", step |-> 3]

SuccessWritten == \E p \in 1..Len(Log) : Wrote(p, NModules, "SUCCESS")

\* every result was taken by one worker, posted once and marked done once
Delivered == \A k \in Items : app.takes[k] = 1 /\ app.posts[k] = 1 /\ app.dones[k] = 1

\* the run is over, the study has its progress record and no module's own
\* analysis raised
RunWithoutFailure ==
    /\ app.run = "done"
    /\ app.progress.status # "absent"
    /\ app.cause # "module"

DeliveryNeverReached == app.run \notin {"queue", "join", "closing"} /\ ~SuccessWritten

Raised == app.tryres \notin {"none", "ok"}

ConversionGate ==
    app.req # "none" =>
        /\ app.run # "none" => app.tryres = "ok"
        /\ Raised => app.run = "none"
        /\ (Raised /\ app.req = "responded") =>
              /\ app.http = 400
              /\ Log[Len(Log)] = <<"update", 0, "FAILED">>
              /\ (app.last = "written") => app.progress = [status |-> "FAILED", step |-> 0]

\* C29: process_analysis is scheduled only when saving and converting raised
\* nothing; when they raise, (0, FAILED) is written, the request ends with
\* HTTP 400 and process_analysis is not scheduled.
C29_ConversionGate == ConversionGate

C29_Witness ==
    /\ app.req = "responded"
    /\ app.kind = ".BIN"
    /\ app.tryres = "TypeError"
    /\ app.http = 400
    /\ app.progress = [status |-> "FAILED", step |-> 0]
    /\ app.run = "none"

Removed == app.dir = "removed"

CleanedWhenOver ==
    /\ (app.req = "responded" /\ Raised) => Removed
    /\ app.run = "done" => Removed

\* C30: a temp directory that exists is eventually removed: by analyze_ecg
\* when saving or conversion fails, by process_analysis however it ends.
C30_TempDirCleanup == ((app.dir = "present") ~> Removed) /\ []CleanedWhenOver

C30_Witness ==
    /\ app.run = "done"
    /\ Removed
    /\ Len(ModulesRun) = NModules
    /\ app.raised = NModules
    /\ Log[Len(Log)] = <<"update", NModules, "FAILED">>
    /\ app.progress = [status |-> "FAILED", step |-> NModules]

=============================================================================
